---- MODULE Spec2Model ----
(***************************************************************************)
(* Plant Keeper (server.js): session-authenticated, ownership-scoped       *)
(* access to plant records and their watering / repotting ledgers.         *)
(*                                                                         *)
(* The database tables are the state.  Every Express handler is one        *)
(* action: better-sqlite3 is synchronous, so a handler runs from its first *)
(* storage statement to its response without yielding.  Every statement    *)
(* is its own transaction (there is no db.transaction); StopSpec lets the  *)
(* process stop between two statements of a handler.  Time is in hours.    *)
(***************************************************************************)
EXTENDS Integers, Sequences, FiniteSets, TLC

\* ---- bounds of the model ------------------------------------------------
MaxUsers == 2
MaxSessions == 2
MaxPlants == 2
MaxEvents == 3
MaxTicks == 1
MaxLegacy == 1
SpecPlants == 1
SpecEvents == 2

\* ---- program constants ---------------------------------------------------
sessionTTLHours == 24 * 30
HoursPerDay == 24
DefaultWaterInterval == 7
DefaultRepotInterval == 365
\* SQL NULL / JS null, undefined in a numeric column or argument
NULL == -1
\* no usable signed cookie on the request (absent, or signature rejected)
NoCookie == 0
\* an interval field of a request holding a string that is no number, and
\* what Number makes of it
NonNumeric == -3
NaN == -4
\* the most storage statements a handler runs (DELETE /api/plants/:id); a
\* handler given ALL runs to its response
ALL == 3

\* ---- inputs --------------------------------------------------------------
\* "" stands for an absent or empty (falsy) string field of the request body
Emails == {"a@x.test", "b@x.test"}
Passwords == {"pw123", "pw456"}
TickHours == sessionTTLHours

VARIABLES
  users,       \* table users: Seq of [email, password_hash], index = id
  sessions,    \* table sessions: token -> [user_id, created_at]
  sidSeq,      \* number of session tokens generated so far
  plants,      \* table plants: id -> row
  plantSeq,    \* sqlite_sequence of plants (AUTOINCREMENT)
  waterings,   \* table waterings: set of [id, plant_id, at, user_id]
  waterSeq,    \* sqlite_sequence of waterings
  repottings,  \* table repottings: set of [id, plant_id, at, user_id]
  repotSeq,    \* sqlite_sequence of repottings
  now,         \* wall clock, hours
  ticks,       \* number of clock advances
  resp,        \* response sent by the step just taken
  revoked      \* history: tokens presented to a completed logout

db == <<users, sessions, sidSeq, plants, plantSeq, waterings, waterSeq,
        repottings, repotSeq>>
store == <<plants, plantSeq, waterings, waterSeq, repottings, repotSeq>>
vars == <<users, sessions, sidSeq, plants, plantSeq, waterings, waterSeq,
          repottings, repotSeq, now, ticks, resp, revoked>>

\* ---- responses -----------------------------------------------------------
\* The response of a handler, with the request it answers: op (route),
\* cookie (signed session cookie presented), email (handle of a register or
\* login request), id (:id, or the id a create returns) and user (req.user,
\* or the identity a register, login or me resolves).
NoResp ==
  [op |-> "none", status |-> 0, error |-> "", cookie |-> NoCookie,
   email |-> "", user |-> NULL, id |-> 0, setCookie |-> NoCookie,
   at |-> NULL, rows |-> <<>>]

Reply(op, status, error) ==
  [NoResp EXCEPT !.op = op, !.status = status, !.error = error]

\* ---- bcrypt ----------------------------------------------------------------
bcryptHash(password) == <<"$2b$11$", password>>

bcryptCompare(password, hash) == hash = bcryptHash(password)

\* ---- auth helpers ----------------------------------------------------------
NoSession == [id |-> NoCookie, user_id |-> NULL, email |-> ""]

getSession(sid) ==
  IF sid = NoCookie THEN NoSession
  ELSE IF sid \in DOMAIN sessions /\ sessions[sid].user_id \in DOMAIN users
       THEN [id |-> sid, user_id |-> sessions[sid].user_id,
             email |-> users[sessions[sid].user_id].email]
       ELSE NoSession

\* createSession: a fresh 192-bit random token, never seen before
newSid == sidSeq + 1

createSession(userId) ==
  /\ sessions' = [s \in DOMAIN sessions \cup {newSid} |->
                    IF s = newSid THEN [user_id |-> userId, created_at |-> now]
                    ELSE sessions[s]]
  /\ sidSeq' = newSid

\* cookies a client can present: none, or any token the server ever signed
Cookies == 0..sidSeq

userByEmail(email) ==
  IF \E u \in DOMAIN users : users[u].email = email
  THEN CHOOSE u \in DOMAIN users : users[u].email = email
  ELSE NULL

\* ---- process stop ----------------------------------------------------------
\* k is the number of storage statements of the handler that take effect:
\* ALL when the handler runs to its response, fewer when the process stops
\* after the k-th statement (no response is sent).  Handlers with a single
\* storage statement take no k.
Out(k, r) == resp' = IF k = ALL THEN r ELSE NoResp

\* ---- auth routes -----------------------------------------------------------
\* (variant: users.email without its UNIQUE constraint)
RegisterNoUnique(email, password) ==
  /\ IF email = "" \/ password = ""
     THEN /\ resp' = [Reply("register", 400, "email and password required")
                      EXCEPT !.email = email]
          /\ UNCHANGED <<users, sessions, sidSeq>>
     ELSE /\ users' = Append(users, [email |-> email,
                                     password_hash |-> bcryptHash(password)])
          /\ createSession(Len(users) + 1)
          /\ resp' = [Reply("register", 200, "") EXCEPT
                        !.email = email, !.setCookie = newSid,
                        !.user = Len(users) + 1]
  /\ UNCHANGED <<store, now, ticks, revoked>>

\* POST /api/register.  The handler awaits bcrypt.hash before its first
\* storage statement and reads nothing before the await, so it takes effect
\* in one step, at the INSERT.
Register(email, password) ==
  /\ IF email = "" \/ password = ""
     THEN /\ resp' = [Reply("register", 400, "email and password required")
                      EXCEPT !.email = email]
          /\ UNCHANGED <<users, sessions, sidSeq>>
     ELSE IF userByEmail(email) # NULL
     THEN /\ resp' = [Reply("register", 409, "email already exists")
                      EXCEPT !.email = email]
          /\ UNCHANGED <<users, sessions, sidSeq>>
     ELSE /\ users' = Append(users, [email |-> email,
                                     password_hash |-> bcryptHash(password)])
          /\ createSession(Len(users) + 1)
          /\ resp' = [Reply("register", 200, "") EXCEPT
                        !.email = email, !.setCookie = newSid,
                        !.user = Len(users) + 1]
  /\ UNCHANGED <<store, now, ticks, revoked>>

\* (variant: an unknown handle is answered 404)
LoginTellsUnknown(email, password) ==
  /\ IF userByEmail(email) = NULL
     THEN /\ resp' = [Reply("login", 404, "no such user")
                      EXCEPT !.email = email]
          /\ UNCHANGED <<sessions, sidSeq>>
     ELSE IF ~bcryptCompare(password, users[userByEmail(email)].password_hash)
     THEN /\ resp' = [Reply("login", 401, "invalid credentials")
                      EXCEPT !.email = email]
          /\ UNCHANGED <<sessions, sidSeq>>
     ELSE /\ createSession(userByEmail(email))
          /\ resp' = [Reply("login", 200, "") EXCEPT
                        !.email = email, !.setCookie = newSid,
                        !.user = userByEmail(email)]
  /\ UNCHANGED <<users, store, now, ticks, revoked>>

\* POST /api/login.  The user row read before the await of bcrypt.compare
\* is never updated or deleted, so the handler takes effect in one step.
Login(email, password) ==
  /\ IF userByEmail(email) = NULL
     THEN /\ resp' = [Reply("login", 401, "invalid credentials")
                      EXCEPT !.email = email]
          /\ UNCHANGED <<sessions, sidSeq>>
     ELSE IF ~bcryptCompare(password, users[userByEmail(email)].password_hash)
     THEN /\ resp' = [Reply("login", 401, "invalid credentials")
                      EXCEPT !.email = email]
          /\ UNCHANGED <<sessions, sidSeq>>
     ELSE /\ createSession(userByEmail(email))
          /\ resp' = [Reply("login", 200, "") EXCEPT
                        !.email = email, !.setCookie = newSid,
                        !.user = userByEmail(email)]
  /\ UNCHANGED <<users, store, now, ticks, revoked>>

\* (variant: the DELETE is lost)
destroySessionLost(sid) == sessions' = sessions

\* (variant: DELETE FROM sessions WHERE user_id = the user of the token)
destroySessionsOfUser(sid) ==
  sessions' = IF sid \in DOMAIN sessions
              THEN [s \in {x \in DOMAIN sessions :
                             sessions[x].user_id # sessions[sid].user_id}
                      |-> sessions[s]]
              ELSE sessions

destroySession(sid) ==
  sessions' = IF sid # NoCookie
              THEN [s \in DOMAIN sessions \ {sid} |-> sessions[s]]
              ELSE sessions

\* POST /api/logout
Logout(c) ==
  /\ destroySession(c)
  /\ revoked' = IF c # NoCookie THEN revoked \cup {c} ELSE revoked
  /\ resp' = [Reply("logout", 200, "") EXCEPT !.cookie = c]
  /\ UNCHANGED <<users, sidSeq, store, now, ticks>>

\* GET /api/me
Me(c) ==
  /\ resp' = IF getSession(c) = NoSession
             THEN [Reply("me", 401, "unauthorized") EXCEPT !.cookie = c]
             ELSE [Reply("me", 200, "") EXCEPT
                     !.cookie = c, !.user = getSession(c).user_id,
                     !.email = getSession(c).email]
  /\ UNCHANGED <<db, now, ticks, revoked>>

\* the wall clock advances between requests
Tick ==
  /\ now' = now + TickHours
  /\ ticks' = ticks + 1
  /\ resp' = NoResp
  /\ UNCHANGED <<db, revoked>>

\* ---- request inputs for the plant routes -----------------------------------
\* a string field that is undefined in the request, or NULL in the table
NullStr == "<null>"

NoBody ==
  [name |-> NullStr, species |-> NullStr, location |-> NullStr,
   water_interval_days |-> NULL, repot_interval_days |-> NULL,
   notes |-> NullStr]

CreateBodies ==
  { NoBody,
    [NoBody EXCEPT !.name = ""],
    [NoBody EXCEPT !.name = "Fern"],
    [NoBody EXCEPT !.name = "Yew", !.water_interval_days = NonNumeric],
    [NoBody EXCEPT !.name = "Ivy", !.species = "Hedera", !.location = "hall",
                   !.water_interval_days = 3, !.repot_interval_days = 0,
                   !.notes = "shade"] }

UpdateBodies ==
  { NoBody,
    [NoBody EXCEPT !.name = "Moss", !.repot_interval_days = 30],
    [NoBody EXCEPT !.water_interval_days = 0, !.notes = ""] }

\* the date field of a water / repot request, by the shape of its string
NoDate == [shape |-> "absent", v |-> 0]

Dates ==
  { NoDate,
    [shape |-> "ymd", v |-> 0],           \* YYYY-MM-DD, a calendar day
    [shape |-> "ymd", v |-> 1],
    [shape |-> "ymd_overflow", v |-> 1],  \* NNNN-NN-NN, day past the month's end
    [shape |-> "ymd_invalid", v |-> 0],   \* NNNN-NN-NN, no such month or day
    [shape |-> "iso", v |-> HoursPerDay],    \* a full timestamp
    [shape |-> "junk", v |-> 0] }         \* anything Date cannot parse

RangeError == -2

\* normalizeDate: the ISO timestamp (hours), or RangeError when
\* toISOString is called on an Invalid Date
normalizeDate(dateStr) ==
  IF dateStr.shape = "absent" THEN now
  ELSE IF dateStr.shape \in {"ymd", "ymd_overflow"} THEN dateStr.v * HoursPerDay
  ELSE IF dateStr.shape = "ymd_invalid" THEN RangeError
  ELSE IF dateStr.shape = "iso" THEN dateStr.v
  ELSE now

\* ---- plant routes ----------------------------------------------------------
\* (variant: the SELECT without its ownership predicate)
fetchAny(id, uid) == IF id \in DOMAIN plants THEN id ELSE NULL

\* SELECT ... FROM plants WHERE id = ? AND (user_id IS NULL OR user_id = ?)
fetchOwned(id, uid) ==
  IF id \in DOMAIN plants /\ (plants[id].user_id = NULL \/ plants[id].user_id = uid)
  THEN id
  ELSE NULL

RECURSIVE descIds(_)
descIds(S) ==
  IF S = {} THEN <<>>
  ELSE LET m == CHOOSE x \in S : \A y \in S : y <= x
       IN <<m>> \o descIds(S \ {m})

\* (variant: SELECT * FROM plants ORDER BY id DESC)
listAllPlants(uid) ==
  LET ids == descIds(DOMAIN plants)
  IN [j \in 1..Len(ids) |-> [id |-> ids[j], row |-> plants[ids[j]]]]

\* SELECT * FROM plants WHERE user_id IS NULL OR user_id = ? ORDER BY id DESC
listPlants(uid) ==
  LET ids == descIds({i \in DOMAIN plants :
                        plants[i].user_id = NULL \/ plants[i].user_id = uid})
  IN [j \in 1..Len(ids) |-> [id |-> ids[j], row |-> plants[ids[j]]]]

PReply(op, c, id, status, error) ==
  [Reply(op, status, error) EXCEPT
     !.cookie = c, !.user = getSession(c).user_id, !.id = id]

Unauthorized(op, c, id) == PReply(op, c, id, 401, "unauthorized")

NotFound(op, c, id) == PReply(op, c, id, 404, "not found")

\* GET /api/plants
ListPlants(c) ==
  /\ resp' = IF getSession(c) = NoSession
             THEN Unauthorized("list", c, 0)
             ELSE [PReply("list", c, 0, 200, "") EXCEPT
                     !.rows = listPlants(getSession(c).user_id)]
  /\ UNCHANGED <<db, now, ticks, revoked>>

\* x || d for a numeric field: undefined, null and 0 are falsy
OrDefault(x, d) == IF x = NULL \/ x = 0 THEN d ELSE x

\* x ?? d
Coalesce(x, d) == IF x = NULL THEN d ELSE x

CoalesceStr(x, d) == IF x = NullStr THEN d ELSE x

\* Number(x): null is 0, a string that is no number is NaN
Number(x) == IF x = NULL THEN 0 ELSE IF x = NonNumeric THEN NaN ELSE x

\* a number bound to a statement parameter: SQLite stores NaN as NULL
bindNumber(v) == IF v = NaN THEN NULL ELSE v

\* (variant: without the name check of line 171, plants.name nullable)
CreatePlantAnyName(c, body) ==
  /\ IF getSession(c) = NoSession
     THEN /\ resp' = Unauthorized("create", c, 0)
          /\ UNCHANGED <<plants, plantSeq>>
     ELSE /\ plantSeq' = plantSeq + 1
          /\ plants' =
               [i \in DOMAIN plants \cup {plantSeq + 1} |->
                  IF i = plantSeq + 1
                  THEN [name |-> body.name,
                        species |-> body.species,
                        location |-> body.location,
                        water_interval_days |-> bindNumber(Number(
                          OrDefault(body.water_interval_days, DefaultWaterInterval))),
                        repot_interval_days |-> bindNumber(Number(
                          OrDefault(body.repot_interval_days, DefaultRepotInterval))),
                        notes |-> body.notes,
                        last_watered |-> NULL,
                        last_repotted |-> NULL,
                        user_id |-> getSession(c).user_id]
                  ELSE plants[i]]
          /\ resp' = PReply("create", c, plantSeq + 1, 200, "")
  /\ UNCHANGED <<users, sessions, sidSeq, waterings, waterSeq, repottings,
                 repotSeq, now, ticks, revoked>>

\* POST /api/plants
CreatePlant(c, body) ==
  /\ IF getSession(c) = NoSession
     THEN /\ resp' = Unauthorized("create", c, 0)
          /\ UNCHANGED <<plants, plantSeq>>
     ELSE IF body.name = NullStr \/ body.name = ""
     THEN /\ resp' = PReply("create", c, 0, 400, "name required")
          /\ UNCHANGED <<plants, plantSeq>>
     ELSE /\ plantSeq' = plantSeq + 1
          /\ plants' =
               [i \in DOMAIN plants \cup {plantSeq + 1} |->
                  IF i = plantSeq + 1
                  THEN [name |-> body.name,
                        species |-> body.species,
                        location |-> body.location,
                        water_interval_days |-> bindNumber(Number(
                          OrDefault(body.water_interval_days, DefaultWaterInterval))),
                        repot_interval_days |-> bindNumber(Number(
                          OrDefault(body.repot_interval_days, DefaultRepotInterval))),
                        notes |-> body.notes,
                        last_watered |-> NULL,
                        last_repotted |-> NULL,
                        user_id |-> getSession(c).user_id]
                  ELSE plants[i]]
          /\ resp' = PReply("create", c, plantSeq + 1, 200, "")
  /\ UNCHANGED <<users, sessions, sidSeq, waterings, waterSeq, repottings,
                 repotSeq, now, ticks, revoked>>

\* (variant: the UPDATE also sets user_id to the caller)
UpdatePlantClaims(c, id, body) ==
  /\ IF getSession(c) = NoSession
     THEN /\ resp' = Unauthorized("update", c, id)
          /\ UNCHANGED plants
     ELSE IF fetchOwned(id, getSession(c).user_id) = NULL
     THEN /\ resp' = NotFound("update", c, id)
          /\ UNCHANGED plants
     ELSE /\ plants' =
               [plants EXCEPT ![id] =
                  [@ EXCEPT
                     !.name = CoalesceStr(body.name, @),
                     !.species = CoalesceStr(body.species, @),
                     !.location = CoalesceStr(body.location, @),
                     !.water_interval_days =
                        bindNumber(Number(Coalesce(body.water_interval_days, @))),
                     !.repot_interval_days =
                        bindNumber(Number(Coalesce(body.repot_interval_days, @))),
                     !.notes = CoalesceStr(body.notes, @),
                     !.user_id = getSession(c).user_id]]
          /\ resp' = PReply("update", c, id, 200, "")
  /\ UNCHANGED <<users, sessions, sidSeq, plantSeq, waterings, waterSeq,
                 repottings, repotSeq, now, ticks, revoked>>

\* PUT /api/plants/:id
UpdatePlant(c, id, body) ==
  /\ IF getSession(c) = NoSession
     THEN /\ resp' = Unauthorized("update", c, id)
          /\ UNCHANGED plants
     ELSE IF fetchOwned(id, getSession(c).user_id) = NULL
     THEN /\ resp' = NotFound("update", c, id)
          /\ UNCHANGED plants
     ELSE /\ plants' =
               [plants EXCEPT ![id] =
                  [@ EXCEPT
                     !.name = CoalesceStr(body.name, @),
                     !.species = CoalesceStr(body.species, @),
                     !.location = CoalesceStr(body.location, @),
                     !.water_interval_days =
                        bindNumber(Number(Coalesce(body.water_interval_days, @))),
                     !.repot_interval_days =
                        bindNumber(Number(Coalesce(body.repot_interval_days, @))),
                     !.notes = CoalesceStr(body.notes, @)]]
          /\ resp' = PReply("update", c, id, 200, "")
  /\ UNCHANGED <<users, sessions, sidSeq, plantSeq, waterings, waterSeq,
                 repottings, repotSeq, now, ticks, revoked>>

\* (variant: the plant row is deleted without its events)
DeletePlantOnly(c, id, k) ==
  /\ IF getSession(c) = NoSession
     THEN /\ Out(k, Unauthorized("delete", c, id))
          /\ UNCHANGED plants
     ELSE IF fetchOwned(id, getSession(c).user_id) = NULL
     THEN /\ Out(k, NotFound("delete", c, id))
          /\ UNCHANGED plants
     ELSE /\ plants' = [i \in DOMAIN plants \ {id} |-> plants[i]]
          /\ Out(k, PReply("delete", c, id, 200, ""))
  /\ UNCHANGED <<users, sessions, sidSeq, plantSeq, waterings, waterSeq,
                 repottings, repotSeq, now, ticks, revoked>>

\* DELETE /api/plants/:id
DeletePlant(c, id, k) ==
  /\ IF getSession(c) = NoSession
     THEN /\ Out(k, Unauthorized("delete", c, id))
          /\ UNCHANGED <<plants, waterings, repottings>>
     ELSE IF fetchOwned(id, getSession(c).user_id) = NULL
     THEN /\ Out(k, NotFound("delete", c, id))
          /\ UNCHANGED <<plants, waterings, repottings>>
     ELSE /\ waterings' = IF k >= 1
                          THEN {e \in waterings : e.plant_id # id}
                          ELSE waterings
          /\ repottings' = IF k >= 2
                           THEN {e \in repottings : e.plant_id # id}
                           ELSE repottings
          /\ plants' = IF k >= 3
                       THEN [i \in DOMAIN plants \ {id} |-> plants[i]]
                       ELSE plants
          /\ Out(k, PReply("delete", c, id, 200, ""))
  /\ UNCHANGED <<users, sessions, sidSeq, plantSeq, waterSeq, repotSeq,
                 now, ticks, revoked>>

\* ---- backdated actions -----------------------------------------------------
\* (variant: the cached field is overwritten by every append)
newerAlways(at, last) == TRUE

\* (variant: the cached field is written once and never again)
newerOnlyUnset(at, last) == last = NULL

\* !last || new Date(at) > new Date(last)
newer(at, last) == last = NULL \/ at > last

\* (variant: INSERT OR IGNORE with a UNIQUE(plant_id, at) index on waterings)
WaterDedup(c, id, date, k) ==
  /\ IF getSession(c) = NoSession
     THEN /\ Out(k, Unauthorized("water", c, id))
          /\ UNCHANGED <<plants, waterings, waterSeq>>
     ELSE IF fetchOwned(id, getSession(c).user_id) = NULL
     THEN /\ Out(k, NotFound("water", c, id))
          /\ UNCHANGED <<plants, waterings, waterSeq>>
     ELSE IF normalizeDate(date) = RangeError
     THEN /\ Out(k, PReply("water", c, id, 500, "RangeError: Invalid time value"))
          /\ UNCHANGED <<plants, waterings, waterSeq>>
     ELSE LET at == normalizeDate(date) IN
          /\ IF k >= 1 /\ ~\E e \in waterings : e.plant_id = id /\ e.at = at
             THEN /\ waterSeq' = waterSeq + 1
                  /\ waterings' = waterings \cup
                       {[id |-> waterSeq + 1, plant_id |-> id, at |-> at,
                         user_id |-> getSession(c).user_id]}
             ELSE UNCHANGED <<waterings, waterSeq>>
          /\ IF k >= 2 /\ newer(at, plants[id].last_watered)
             THEN plants' = [plants EXCEPT ![id].last_watered = at]
             ELSE UNCHANGED plants
          /\ Out(k, [PReply("water", c, id, 200, "") EXCEPT !.at = at])
  /\ UNCHANGED <<users, sessions, sidSeq, plantSeq, repottings, repotSeq,
                 now, ticks, revoked>>

\* POST /api/water/:id
Water(c, id, date, k) ==
  /\ IF getSession(c) = NoSession
     THEN /\ Out(k, Unauthorized("water", c, id))
          /\ UNCHANGED <<plants, waterings, waterSeq>>
     ELSE IF fetchOwned(id, getSession(c).user_id) = NULL
     THEN /\ Out(k, NotFound("water", c, id))
          /\ UNCHANGED <<plants, waterings, waterSeq>>
     ELSE IF normalizeDate(date) = RangeError
     THEN /\ Out(k, PReply("water", c, id, 500, "RangeError: Invalid time value"))
          /\ UNCHANGED <<plants, waterings, waterSeq>>
     ELSE LET at == normalizeDate(date) IN
          /\ IF k >= 1
             THEN /\ waterSeq' = waterSeq + 1
                  /\ waterings' = waterings \cup
                       {[id |-> waterSeq + 1, plant_id |-> id, at |-> at,
                         user_id |-> getSession(c).user_id]}
             ELSE UNCHANGED <<waterings, waterSeq>>
          /\ IF k >= 2 /\ newer(at, plants[id].last_watered)
             THEN plants' = [plants EXCEPT ![id].last_watered = at]
             ELSE UNCHANGED plants
          /\ Out(k, [PReply("water", c, id, 200, "") EXCEPT !.at = at])
  /\ UNCHANGED <<users, sessions, sidSeq, plantSeq, repottings, repotSeq,
                 now, ticks, revoked>>

\* (variant: the UPDATE of the repot route writes last_watered)
RepotWritesWatered(c, id, date, k) ==
  /\ IF getSession(c) = NoSession
     THEN /\ Out(k, Unauthorized("repot", c, id))
          /\ UNCHANGED <<plants, repottings, repotSeq>>
     ELSE IF fetchOwned(id, getSession(c).user_id) = NULL
     THEN /\ Out(k, NotFound("repot", c, id))
          /\ UNCHANGED <<plants, repottings, repotSeq>>
     ELSE IF normalizeDate(date) = RangeError
     THEN /\ Out(k, PReply("repot", c, id, 500, "RangeError: Invalid time value"))
          /\ UNCHANGED <<plants, repottings, repotSeq>>
     ELSE LET at == normalizeDate(date) IN
          /\ IF k >= 1
             THEN /\ repotSeq' = repotSeq + 1
                  /\ repottings' = repottings \cup
                       {[id |-> repotSeq + 1, plant_id |-> id, at |-> at,
                         user_id |-> getSession(c).user_id]}
             ELSE UNCHANGED <<repottings, repotSeq>>
          /\ IF k >= 2 /\ newer(at, plants[id].last_repotted)
             THEN plants' = [plants EXCEPT ![id].last_watered = at]
             ELSE UNCHANGED plants
          /\ Out(k, [PReply("repot", c, id, 200, "") EXCEPT !.at = at])
  /\ UNCHANGED <<users, sessions, sidSeq, plantSeq, waterings, waterSeq,
                 now, ticks, revoked>>

\* POST /api/repot/:id
Repot(c, id, date, k) ==
  /\ IF getSession(c) = NoSession
     THEN /\ Out(k, Unauthorized("repot", c, id))
          /\ UNCHANGED <<plants, repottings, repotSeq>>
     ELSE IF fetchOwned(id, getSession(c).user_id) = NULL
     THEN /\ Out(k, NotFound("repot", c, id))
          /\ UNCHANGED <<plants, repottings, repotSeq>>
     ELSE IF normalizeDate(date) = RangeError
     THEN /\ Out(k, PReply("repot", c, id, 500, "RangeError: Invalid time value"))
          /\ UNCHANGED <<plants, repottings, repotSeq>>
     ELSE LET at == normalizeDate(date) IN
          /\ IF k >= 1
             THEN /\ repotSeq' = repotSeq + 1
                  /\ repottings' = repottings \cup
                       {[id |-> repotSeq + 1, plant_id |-> id, at |-> at,
                         user_id |-> getSession(c).user_id]}
             ELSE UNCHANGED <<repottings, repotSeq>>
          /\ IF k >= 2 /\ newer(at, plants[id].last_repotted)
             THEN plants' = [plants EXCEPT ![id].last_repotted = at]
             ELSE UNCHANGED plants
          /\ Out(k, [PReply("repot", c, id, 200, "") EXCEPT !.at = at])
  /\ UNCHANGED <<users, sessions, sidSeq, plantSeq, waterings, waterSeq,
                 now, ticks, revoked>>

\* SELECT type, at FROM <table> WHERE plant_id = ? ORDER BY at DESC
\* (rows with equal at in insertion order)
RECURSIVE orderByAtDesc(_, _)
orderByAtDesc(type, S) ==
  IF S = {} THEN <<>>
  ELSE LET m == CHOOSE x \in S :
                  \A y \in S : y.at < x.at \/ (y.at = x.at /\ y.id >= x.id)
       IN <<[type |-> type, at |-> m.at]>> \o orderByAtDesc(type, S \ {m})

\* Array.prototype.sort((a,b) => new Date(b.at) - new Date(a.at)): stable
RECURSIVE sortDesc(_)
sortDesc(s) ==
  IF Len(s) <= 1 THEN s
  ELSE LET rest == sortDesc(Tail(s))
           n == Cardinality({j \in DOMAIN rest : rest[j].at > Head(s).at})
       IN SubSeq(rest, 1, n) \o <<Head(s)>> \o SubSeq(rest, n + 1, Len(rest))

\* (variant: the two result sets joined without the final sort)
historyUnsorted(id) ==
  orderByAtDesc("watered", {e \in waterings : e.plant_id = id})
  \o orderByAtDesc("repotted", {e \in repottings : e.plant_id = id})

history(id) ==
  sortDesc(orderByAtDesc("watered", {e \in waterings : e.plant_id = id})
           \o orderByAtDesc("repotted", {e \in repottings : e.plant_id = id}))

\* (variant: the route registered without requireAuth)
HistoryNoAuth(c, id) ==
  /\ resp' = IF fetchOwned(id, getSession(c).user_id) = NULL
             THEN NotFound("history", c, id)
             ELSE [PReply("history", c, id, 200, "") EXCEPT !.rows = history(id)]
  /\ UNCHANGED <<db, now, ticks, revoked>>

\* GET /api/history/:id
History(c, id) ==
  /\ resp' = IF getSession(c) = NoSession
             THEN Unauthorized("history", c, id)
             ELSE IF fetchOwned(id, getSession(c).user_id) = NULL
             THEN NotFound("history", c, id)
             ELSE [PReply("history", c, id, 200, "") EXCEPT !.rows = history(id)]
  /\ UNCHANGED <<db, now, ticks, revoked>>

\* ---- the service -----------------------------------------------------------
\* a plant row left by the single-user version of the application
LegacyPlant ==
  [name |-> "Aloe", species |-> NullStr, location |-> NullStr,
   water_interval_days |-> DefaultWaterInterval,
   repot_interval_days |-> DefaultRepotInterval,
   notes |-> NullStr, last_watered |-> NULL, last_repotted |-> NULL,
   user_id |-> NULL]

NoSessions == [s \in {} |-> [user_id |-> NULL, created_at |-> 0]]

\* the database as the migrations of the first start leave it: no users, no
\* sessions, no events, and the plants of the single-user version, unowned
\* (with no care recorded yet: the event tables are created empty)
Init ==
  /\ users = <<>>
  /\ sessions = NoSessions
  /\ sidSeq = 0
  /\ \E n \in 0..MaxLegacy :
       /\ plants = [i \in 1..n |-> LegacyPlant]
       /\ plantSeq = n
  /\ waterings = {}
  /\ waterSeq = 0
  /\ repottings = {}
  /\ repotSeq = 0
  /\ now = 0
  /\ ticks = 0
  /\ resp = NoResp
  /\ revoked = {}

Creds == (Emails \cup {""}) \X (Passwords \cup {""})

\* :id of a request: every id ever issued, and one that never was
PlantIds == 1..(plantSeq + 1)

\* the response of the handler that just ran leaves the process
Sent ==
  /\ resp # NoResp
  /\ resp' = NoResp
  /\ UNCHANGED <<db, now, ticks, revoked>>

\* The handlers run one at a time (a handler is synchronous from its first
\* storage statement on), each after the previous response has left.
Idle == resp = NoResp

\* requests of the auth routes, and the clock
AuthNext(maxUsers, maxSessions, maxTicks) ==
  \/ /\ Idle /\ Len(users) < maxUsers /\ sidSeq < maxSessions
     /\ \E cr \in Creds : Register(cr[1], cr[2])
  \/ /\ Idle /\ sidSeq < maxSessions
     /\ \E cr \in Creds : Login(cr[1], cr[2])
  \/ Idle /\ \E c \in Cookies : Logout(c)
  \/ Idle /\ \E c \in Cookies : Me(c)
  \/ Idle /\ ticks < maxTicks /\ Tick

\* requests of the plant, action and history routes
PlantNext(maxPlants, maxEvents, bodies, ubodies, dates) ==
  \/ Idle /\ \E c \in Cookies : ListPlants(c)
  \/ /\ Idle /\ plantSeq < maxPlants
     /\ \E c \in Cookies, b \in bodies : CreatePlant(c, b)
  \/ Idle /\ \E c \in Cookies, id \in PlantIds, b \in ubodies : UpdatePlant(c, id, b)
  \/ Idle /\ \E c \in Cookies, id \in PlantIds : DeletePlant(c, id, ALL)
  \/ /\ Idle /\ waterSeq + repotSeq < maxEvents
     /\ \E c \in Cookies, id \in PlantIds, d \in dates : Water(c, id, d, ALL)
  \/ /\ Idle /\ waterSeq + repotSeq < maxEvents
     /\ \E c \in Cookies, id \in PlantIds, d \in dates : Repot(c, id, d, ALL)
  \/ Idle /\ \E c \in Cookies, id \in PlantIds : History(c, id)

\* The whole service from the first start: every request with every body,
\* on at most SpecPlants plants and SpecEvents events.
Next ==
  \/ Sent
  \/ AuthNext(MaxUsers, MaxSessions, MaxTicks)
  \/ PlantNext(SpecPlants, SpecEvents, CreateBodies, UpdateBodies, {NoDate})

Spec == Init /\ [][Next]_vars

\* The plant, action and history routes with two users signed in: the state
\* after one clock advance and the registrations of a@x.test and b@x.test.
LedgerInit ==
  /\ users = <<[email |-> "a@x.test", password_hash |-> bcryptHash("pw123")],
               [email |-> "b@x.test", password_hash |-> bcryptHash("pw456")]>>
  /\ sessions = [s \in 1..2 |-> [user_id |-> s, created_at |-> TickHours]]
  /\ sidSeq = 2
  /\ \E n \in 0..MaxLegacy :
       /\ plants = [i \in 1..n |-> LegacyPlant]
       /\ plantSeq = n
  /\ waterings = {}
  /\ waterSeq = 0
  /\ repottings = {}
  /\ repotSeq = 0
  /\ now = TickHours
  /\ ticks = 1
  /\ resp = NoResp
  /\ revoked = {}

LedgerNext ==
  \/ Sent
  \/ PlantNext(MaxPlants, MaxEvents,
               {NoBody, [NoBody EXCEPT !.name = ""],
                [NoBody EXCEPT !.name = "Fern"]},
               {[NoBody EXCEPT !.name = "Moss", !.repot_interval_days = 30]},
               Dates)

LedgerSpec == LedgerInit /\ [][LedgerNext]_vars

\* The same two users and one plant at most, where the process may also stop
\* between two storage statements of a handler (every statement is its own
\* transaction) and is started again.
StopNext ==
  \/ Sent
  \/ PlantNext(SpecPlants, MaxEvents,
               {[NoBody EXCEPT !.name = "Fern"]}, {NoBody}, Dates)
  \/ /\ Idle /\ waterSeq + repotSeq < MaxEvents
     /\ \E c \in Cookies, id \in PlantIds, d \in Dates : Water(c, id, d, 1)
  \/ /\ Idle /\ waterSeq + repotSeq < MaxEvents
     /\ \E c \in Cookies, id \in PlantIds, d \in Dates : Repot(c, id, d, 1)
  \/ Idle /\ \E c \in Cookies, id \in PlantIds, k \in 1..2 : DeletePlant(c, id, k)

StopSpec == LedgerInit /\ [][StopNext]_vars

\* ---- properties ------------------------------------------------------------
\* the ledger of one kind for one plant, and its full re-scan
eventsOf(table, id) == {e \in table : e.plant_id = id}

maxAt(S) ==
  IF S = {} THEN NULL
  ELSE CHOOSE t \in {e.at : e \in S} : \A e \in S : e.at <= t

RecordOps == {"list", "create", "update", "delete", "water", "repot", "history"}

TargetOps == {"update", "delete", "water", "repot", "history"}

\* the payload of a response is empty
Bare(r) == r.setCookie = NoCookie /\ r.at = NULL /\ r.rows = <<>>

\* C1: in every reachable state the cached last_watered / last_repotted of
\* every plant equals the maximum at over the plant's stored events of that
\* kind, and is unset when there is none.
C1_CacheIsMaxOfLedger ==
  \A id \in DOMAIN plants :
    /\ plants[id].last_watered = maxAt(eventsOf(waterings, id))
    /\ plants[id].last_repotted = maxAt(eventsOf(repottings, id))

\* a plant holds two waterings by different users, the later insert backdated
C1_Witness ==
  \E e1 \in waterings, e2 \in waterings :
    /\ e1.plant_id = e2.plant_id /\ e1.id < e2.id /\ e2.at < e1.at
    /\ e1.user_id # e2.user_id
    /\ e1.plant_id \in DOMAIN plants
    /\ plants[e1.plant_id].last_watered = e1.at

\* C2: a request of user B that targets a plant owned by another user A is
\* answered 404 "not found" with an empty payload, exactly as a request for
\* an id that names no plant, and changes no table; a list never shows B a
\* plant owned by A.
C2_OtherUsersPlantIsNotFound ==
  [][/\ (/\ resp'.op \in TargetOps
         /\ resp'.user # NULL
         /\ \/ resp'.id \notin DOMAIN plants
            \/ plants[resp'.id].user_id \notin {NULL, resp'.user})
        => /\ resp'.status = 404 /\ resp'.error = "not found" /\ Bare(resp')
           /\ UNCHANGED db
     /\ (resp'.op = "list" /\ resp'.status = 200)
        => \A j \in DOMAIN resp'.rows :
             resp'.rows[j].row.user_id \in {NULL, resp'.user}]_vars

\* user B was just refused a plant that exists and belongs to user A
C2_Witness ==
  /\ resp.op \in TargetOps /\ resp.status = 404 /\ resp.user # NULL
  /\ resp.id \in DOMAIN plants
  /\ plants[resp.id].user_id \notin {NULL, resp.user}

\* C3: a successful append of kind K with effective timestamp t inserts an
\* event at t and sets the cached field of K to t when it was unset or
\* t is strictly greater, and leaves it unchanged otherwise.
C3_AppendSetsCacheIffNewer ==
  [][/\ (resp'.op = "water" /\ resp'.status = 200)
        => LET id == resp'.id
               t == resp'.at
               old == plants[id].last_watered
           IN /\ \E e \in waterings' \ waterings : e.plant_id = id /\ e.at = t
              /\ plants'[id].last_watered =
                   IF old = NULL \/ t > old THEN t ELSE old
     /\ (resp'.op = "repot" /\ resp'.status = 200)
        => LET id == resp'.id
               t == resp'.at
               old == plants[id].last_repotted
           IN /\ \E e \in repottings' \ repottings : e.plant_id = id /\ e.at = t
              /\ plants'[id].last_repotted =
                   IF old = NULL \/ t > old THEN t ELSE old]_vars

\* a backdated watering was just appended and the cache kept the later time
C3_Witness ==
  /\ resp.op = "water" /\ resp.status = 200
  /\ resp.id \in DOMAIN plants
  /\ plants[resp.id].last_watered > resp.at

\* C4: a plant, action or history request whose cookie is absent or names no
\* stored session is answered 401 "unauthorized" with an empty payload and
\* changes no table.
C4_NoSessionIsUnauthorized ==
  [][(/\ resp'.op \in RecordOps
      /\ (resp'.cookie = NoCookie \/ resp'.cookie \notin DOMAIN sessions))
     => /\ resp'.status = 401 /\ resp'.error = "unauthorized" /\ Bare(resp')
        /\ resp'.user = NULL
        /\ UNCHANGED db]_vars

\* a plant exists and a request on it with a logged-out token was refused
C4_Witness ==
  /\ resp.op \in TargetOps /\ resp.status = 401
  /\ resp.cookie \in revoked
  /\ resp.id \in DOMAIN plants

\* C5: a successful delete removes the plant and every event that refers to
\* it, so that no user can fetch it again, and no stored event ever refers
\* to a plant that does not exist.
C5_DeleteCascades ==
  [][/\ (resp'.op = "delete" /\ resp'.status = 200)
        => /\ resp'.id \in DOMAIN plants
           /\ resp'.id \notin DOMAIN plants'
           /\ eventsOf(waterings', resp'.id) = {}
           /\ eventsOf(repottings', resp'.id) = {}
           /\ \A id \in PlantIds, u \in DOMAIN users :
                id = resp'.id => (fetchOwned(id, u))' = NULL
     /\ \A e \in waterings' \cup repottings' : e.plant_id \in DOMAIN plants']_vars

\* the one plant deleted so far held events of both kinds, and was just deleted
C5_Witness ==
  /\ resp.op = "delete" /\ resp.status = 200
  /\ plantSeq = Cardinality(DOMAIN plants) + 1
  /\ waterSeq > Cardinality(waterings)
  /\ repotSeq > Cardinality(repottings)

\* C6: no state, also when the process stops inside a handler, holds an
\* event later than the cached field of its plant and kind, or a plant whose
\* cached field is set while its events of that kind are gone.
C6_AppendAndDeleteAreAtomic ==
  \A id \in DOMAIN plants :
    /\ \A e \in eventsOf(waterings, id) :
         plants[id].last_watered # NULL /\ e.at <= plants[id].last_watered
    /\ \A e \in eventsOf(repottings, id) :
         plants[id].last_repotted # NULL /\ e.at <= plants[id].last_repotted
    /\ plants[id].last_watered # NULL => eventsOf(waterings, id) # {}
    /\ plants[id].last_repotted # NULL => eventsOf(repottings, id) # {}

\* C7: a session whose age has reached the TTL does not resolve.
C7_ExpiredSessionDoesNotResolve ==
  \A s \in DOMAIN sessions :
    now - sessions[s].created_at >= sessionTTLHours => getSession(s) = NoSession

\* C8: a token presented to logout resolves to no user in any later state
\* (me and every plant route answer it 401); logout always succeeds, and
\* with an absent or unknown token it changes no stored session.
C8_RevokedNeverResolves ==
  [][/\ \A t \in revoked' : (getSession(t))' = NoSession
     /\ (resp'.op \in RecordOps \cup {"me"} /\ resp'.cookie \in revoked)
        => resp'.status = 401
     /\ resp'.op = "logout"
        => /\ resp'.status = 200 /\ resp'.error = ""
           /\ (resp'.cookie = NoCookie \/ resp'.cookie \notin DOMAIN sessions)
              => UNCHANGED sessions]_vars

\* whoAmI with a logged-out token was refused while another session lives
C8_Witness ==
  /\ resp.op = "me" /\ resp.status = 401
  /\ resp.cookie \in revoked
  /\ DOMAIN sessions # {}

\* C9 as stated: every registration of a registered handle is a Conflict.
C9_DuplicateHandleIsConflict ==
  [][\A cr \in Creds :
       (userByEmail(cr[1]) # NULL /\ Register(cr[1], cr[2]))
       => resp'.status = 409]_vars

\* C9: registering, with a non-empty secret, a handle that is already
\* registered is answered 409, adds no user and no session, keeps every
\* stored hash, and every session resolves as before.
C9_DuplicateHandleWithSecretIsConflict ==
  [][\A e \in Emails, p \in Passwords :
       (userByEmail(e) # NULL /\ Register(e, p))
       => /\ resp'.status = 409 /\ resp'.error = "email already exists"
          /\ resp'.setCookie = NoCookie
          /\ UNCHANGED <<users, sessions, sidSeq>>
          /\ \A t \in DOMAIN sessions : (getSession(t))' = getSession(t)]_vars

\* a second registration of a handle was refused and the first
\* registration's session resolves to that handle
C9_Witness ==
  /\ resp.op = "register" /\ resp.status = 409
  /\ \E t \in DOMAIN sessions : getSession(t).email = resp.email
  /\ Cardinality({u \in DOMAIN users : users[u].email = resp.email}) = 1

\* C10: the list a signed-in user receives holds, once each, exactly the
\* existing plants whose user_id is the user's or NULL.
C10_ListIsOwnedOrUnowned ==
  resp.op = "list" =>
    IF resp.user = NULL THEN resp.status = 401
    ELSE LET visible == {i \in DOMAIN plants :
                           plants[i].user_id = resp.user \/ plants[i].user_id = NULL}
         IN /\ resp.status = 200
            /\ Len(resp.rows) = Cardinality(visible)
            /\ {resp.rows[j].id : j \in DOMAIN resp.rows} = visible
            /\ \A j \in DOMAIN resp.rows : resp.rows[j].row = plants[resp.rows[j].id]

\* a list showed the user an unowned plant and hid another user's plant
C10_Witness ==
  /\ resp.op = "list" /\ resp.status = 200
  /\ \E j \in DOMAIN resp.rows : resp.rows[j].row.user_id = NULL
  /\ \E i \in DOMAIN plants : plants[i].user_id \notin {NULL, resp.user}

\* the rows of a history response of one type and timestamp
rowsAt(rows, type, t) == {j \in DOMAIN rows : rows[j].type = type /\ rows[j].at = t}

\* C11: a history request of a signed-in user on a plant the user can fetch
\* is answered 200 with one row per stored event of the plant, of either
\* kind (events with equal timestamps one row each, no row of another
\* plant), in non-increasing order of at.
C11_HistoryIsLedgerNewestFirst ==
  resp.op = "history" =>
    /\ (resp.user # NULL /\ fetchOwned(resp.id, resp.user) # NULL)
         => resp.status = 200
    /\ resp.status = 200 =>
         LET W == eventsOf(waterings, resp.id)
             R == eventsOf(repottings, resp.id)
             rows == resp.rows
         IN /\ Len(rows) = Cardinality(W) + Cardinality(R)
            /\ \A e \in W : Cardinality(rowsAt(rows, "watered", e.at))
                              = Cardinality({x \in W : x.at = e.at})
            /\ \A e \in R : Cardinality(rowsAt(rows, "repotted", e.at))
                              = Cardinality({x \in R : x.at = e.at})
            /\ \A j \in 1..(Len(rows) - 1) : rows[j].at >= rows[j + 1].at

\* a history of three events: two of different kinds at one timestamp, and
\* two waterings appended oldest first
C11_Witness ==
  /\ resp.op = "history" /\ resp.status = 200 /\ Len(resp.rows) = 3
  /\ \E j \in 1..2 : /\ resp.rows[j].at = resp.rows[j + 1].at
                      /\ resp.rows[j].type # resp.rows[j + 1].type
  /\ \E e1, e2 \in eventsOf(waterings, resp.id) : e1.id < e2.id /\ e1.at < e2.at

\* the step is a completed delete of the plant the event e belongs to
deletesOwner(e) ==
  resp'.op = "delete" /\ resp'.status = 200 /\ e.plant_id = resp'.id

\* C12: a successful append adds exactly one row to the table of its kind,
\* for the plant and timestamp of the response, also when a row with that
\* plant and timestamp is already stored, and leaves the other table alone;
\* every stored event stays as it is in every step except a completed
\* delete of its plant.
C12_AppendAddsOneEventAndKeepsTheRest ==
  [][/\ (resp'.op = "water" /\ resp'.status = 200)
        => /\ Cardinality(waterings') = Cardinality(waterings) + 1
           /\ \E e \in waterings' \ waterings :
                /\ waterings' = waterings \cup {e}
                /\ e.plant_id = resp'.id /\ e.at = resp'.at
                /\ \A x \in waterings : x.id # e.id
           /\ repottings' = repottings
     /\ (resp'.op = "repot" /\ resp'.status = 200)
        => /\ Cardinality(repottings') = Cardinality(repottings) + 1
           /\ \E e \in repottings' \ repottings :
                /\ repottings' = repottings \cup {e}
                /\ e.plant_id = resp'.id /\ e.at = resp'.at
                /\ \A x \in repottings : x.id # e.id
           /\ waterings' = waterings
     /\ \A e \in waterings : e \in waterings' \/ deletesOwner(e)
     /\ \A e \in repottings : e \in repottings' \/ deletesOwner(e)]_vars

\* a watering was just appended at the plant and timestamp of a stored one
C12_Witness ==
  /\ resp.op = "water" /\ resp.status = 200
  /\ \E e1, e2 \in eventsOf(waterings, resp.id) :
       e1.id # e2.id /\ e1.at = resp.at /\ e2.at = resp.at

\* the effective timestamp C13 states for a date argument
statedAt(d) ==
  IF d.shape = "ymd" THEN d.v * HoursPerDay
  ELSE IF d.shape = "iso" THEN d.v
  ELSE now

\* C13: a water or repot request of a signed-in user on a plant the user can
\* fetch is answered 200 whatever its date argument, inserts one event, and
\* its timestamp is the current time for an absent date, the start of the
\* day for a calendar date, the instant for a full timestamp, and the
\* current time for every other string.
C13_AppendNeverFailsOnDate ==
  [][\A c \in Cookies, id \in PlantIds, d \in Dates :
       /\ (/\ getSession(c) # NoSession
            /\ fetchOwned(id, getSession(c).user_id) # NULL
            /\ Water(c, id, d, ALL))
           => /\ resp'.status = 200 /\ resp'.at = statedAt(d)
              /\ Cardinality(waterings') = Cardinality(waterings) + 1
       /\ (/\ getSession(c) # NoSession
            /\ fetchOwned(id, getSession(c).user_id) # NULL
            /\ Repot(c, id, d, ALL))
           => /\ resp'.status = 200 /\ resp'.at = statedAt(d)
              /\ Cardinality(repottings') = Cardinality(repottings) + 1]_vars

\* the attributes an update request can carry, and their absent value
TextAttrs == {"name", "species", "location", "notes"}

IntervalAttrs == {"water_interval_days", "repot_interval_days"}

\* C14: an update of a signed-in user on a plant the user can fetch is
\* answered 200 and every attribute the request body leaves out has the
\* same value in the plant's row after the update as before it.
C14_UpdateKeepsUnspecified ==
  [][\A c \in Cookies, id \in PlantIds, b \in UpdateBodies :
       (/\ getSession(c) # NoSession
        /\ fetchOwned(id, getSession(c).user_id) # NULL
        /\ UpdatePlant(c, id, b))
       => /\ resp'.status = 200
          /\ \A f \in TextAttrs : b[f] = NullStr => plants'[id][f] = plants[id][f]
          /\ \A f \in IntervalAttrs : b[f] = NULL => plants'[id][f] = plants[id][f]]_vars

\* the interval C15 states for a create request: the policy value when the
\* field is left out, the supplied number otherwise
statedInterval(x, d) == IF x = NULL THEN d ELSE x

\* C15: a create request of a signed-in user with a name and numeric (or
\* no) intervals is answered 200 with an id no plant ever had, adds that
\* one row and changes no other, owned by the user, with both cached fields
\* unset and no events, and with each interval as supplied, or 7 and 365
\* where the request leaves it out.
C15_CreateStoresSuppliedIntervals ==
  [][\A c \in Cookies, b \in CreateBodies :
       (/\ getSession(c) # NoSession
        /\ b.name \notin {NullStr, ""}
        /\ b.water_interval_days # NonNumeric
        /\ b.repot_interval_days # NonNumeric
        /\ CreatePlant(c, b))
       => LET id == resp'.id IN
          /\ resp'.status = 200
          /\ id > plantSeq /\ id \notin DOMAIN plants
          /\ DOMAIN plants' = DOMAIN plants \cup {id}
          /\ \A i \in DOMAIN plants : plants'[i] = plants[i]
          /\ plants'[id].user_id = getSession(c).user_id
          /\ plants'[id].last_watered = NULL /\ plants'[id].last_repotted = NULL
          /\ eventsOf(waterings', id) = {} /\ eventsOf(repottings', id) = {}
          /\ plants'[id].water_interval_days =
               statedInterval(b.water_interval_days, DefaultWaterInterval)
          /\ plants'[id].repot_interval_days =
               statedInterval(b.repot_interval_days, DefaultRepotInterval)]_vars

\* C16: a create request of a signed-in user whose name is absent or empty
\* is answered 400 "name required" with an empty payload and no id, and
\* changes no table.
C16_CreateWithoutNameIsRejected ==
  [][\A c \in Cookies, b \in CreateBodies :
       (/\ getSession(c) # NoSession
        /\ b.name \in {NullStr, ""}
        /\ CreatePlant(c, b))
       => /\ resp'.status = 400 /\ resp'.error = "name required"
          /\ resp'.id = 0 /\ Bare(resp')
          /\ UNCHANGED db]_vars

\* a create without a name was just refused to a signed-in user while
\* plants and events of both kinds are stored
C16_Witness ==
  /\ resp.op = "create" /\ resp.status = 400 /\ resp.user # NULL
  /\ DOMAIN plants # {} /\ waterings # {} /\ repottings # {}

\* the secret is the one the handle was registered with
registeredWith(email, password) ==
  /\ userByEmail(email) # NULL
  /\ users[userByEmail(email)].password_hash = bcryptHash(password)

\* C17: a login with an unknown handle and a login with a registered handle
\* and another secret get the same response, 401 "invalid credentials" with
\* no cookie and no identity, and store no session; a login is answered 200
\* only with a registered handle and the secret it was registered with, and
\* then sets a fresh token that resolves to that user.
C17_LoginFailuresAreAlike ==
  [][\A cr \in Creds :
       Login(cr[1], cr[2])
       => IF registeredWith(cr[1], cr[2])
          THEN /\ resp'.status = 200 /\ resp'.user = userByEmail(cr[1])
               /\ resp'.setCookie \notin DOMAIN sessions
               /\ DOMAIN sessions' = DOMAIN sessions \cup {resp'.setCookie}
               /\ \A t \in 1..(sidSeq + 1) :
                    t = resp'.setCookie
                    => (getSession(t))'.user_id = userByEmail(cr[1])
          ELSE /\ [resp' EXCEPT !.email = ""]
                    = Reply("login", 401, "invalid credentials")
               /\ UNCHANGED db]_vars

\* a login with a registered handle and a wrong secret was just refused,
\* while another handle is not registered
C17_Witness ==
  /\ resp.op = "login" /\ resp.status = 401
  /\ userByEmail(resp.email) # NULL
  /\ \E e \in Emails : userByEmail(e) = NULL

\* C18: a logout deletes the session of the token it was given and no
\* other: every other stored session, of the same or of another user, is
\* still stored and resolves to the same user and handle; users, plants and
\* events are unchanged and no token is issued.
C18_LogoutRevokesOnlyItsToken ==
  [][resp'.op = "logout"
     => /\ resp'.cookie \notin DOMAIN sessions'
        /\ \A t \in DOMAIN sessions :
             t # resp'.cookie
             => /\ t \in DOMAIN sessions'
                /\ sessions'[t] = sessions[t]
                /\ (getSession(t))' = getSession(t)
                /\ getSession(t) # NoSession
        /\ UNCHANGED <<users, sidSeq, store>>]_vars

\* the only user was signed in twice and one of the two tokens was just
\* logged out: the other still resolves
C18_Witness ==
  /\ resp.op = "logout" /\ resp.cookie \in revoked
  /\ Len(users) = 1 /\ sidSeq = 2
  /\ \E t \in DOMAIN sessions : t # resp.cookie /\ getSession(t).user_id = 1

\* every plant row but that of id is as before, and no plant came or went
othersKept(id) ==
  /\ DOMAIN plants' = DOMAIN plants
  /\ \A i \in DOMAIN plants : i # id => plants'[i] = plants[i]

\* C19: a water request changes no repotting, no last_repotted and no
\* other attribute of its plant but last_watered, adds events to no other
\* plant and changes no other plant; a repot request likewise with the
\* kinds exchanged; an update request changes no event and no cached field
\* of any plant, and no other plant.
C19_KindsAreIndependent ==
  [][/\ resp'.op = "water"
        => /\ repottings' = repottings /\ repotSeq' = repotSeq
           /\ othersKept(resp'.id)
           /\ \A e \in waterings' \ waterings : e.plant_id = resp'.id
           /\ resp'.id \in DOMAIN plants
              => [plants'[resp'.id] EXCEPT !.last_watered = NULL]
                 = [plants[resp'.id] EXCEPT !.last_watered = NULL]
     /\ resp'.op = "repot"
        => /\ waterings' = waterings /\ waterSeq' = waterSeq
           /\ othersKept(resp'.id)
           /\ \A e \in repottings' \ repottings : e.plant_id = resp'.id
           /\ resp'.id \in DOMAIN plants
              => [plants'[resp'.id] EXCEPT !.last_repotted = NULL]
                 = [plants[resp'.id] EXCEPT !.last_repotted = NULL]
     /\ resp'.op = "update"
        => /\ waterings' = waterings /\ repottings' = repottings
           /\ othersKept(resp'.id)
           /\ \A i \in DOMAIN plants :
                /\ plants'[i].last_watered = plants[i].last_watered
                /\ plants'[i].last_repotted = plants[i].last_repotted]_vars

\* a watering was just appended to a plant that has been repotted, while
\* another plant holds events of its own
C19_Witness ==
  /\ resp.op = "water" /\ resp.status = 200
  /\ resp.id \in DOMAIN plants
  /\ plants[resp.id].last_repotted # NULL
  /\ plants[resp.id].last_watered = resp.at
  /\ \E e \in waterings \cup repottings : e.plant_id # resp.id

\* C20: in every step a plant that stays stored keeps its user_id, owned or
\* NULL, and a plant that appears has an id no plant had before and the
\* user_id of a registered user, the caller of the create.
C20_OwnershipNeverChanges ==
  [][/\ \A i \in DOMAIN plants \cap DOMAIN plants' :
          plants'[i].user_id = plants[i].user_id
     /\ \A i \in DOMAIN plants' \ DOMAIN plants :
          /\ i > plantSeq
          /\ plants'[i].user_id \in DOMAIN users
          /\ plants'[i].user_id = resp'.user /\ resp'.op = "create"]_vars

\* a signed-in user has watered and just renamed an unowned plant, and the
\* plant is still unowned
C20_Witness ==
  /\ resp.op = "update" /\ resp.status = 200 /\ resp.user # NULL
  /\ resp.id \in DOMAIN plants
  /\ plants[resp.id].user_id = NULL
  /\ plants[resp.id].name = "Moss"
  /\ eventsOf(waterings, resp.id) # {}

====
